---- MODULE Spec2Model ----
(***************************************************************************)
(* streamdown-rs: the ANSI escape scanner, the SGR collapser, the word     *)
(* tokenizer and the line wrapper.                                         *)
(*                                                                         *)
(* A Rust string is a sequence of characters; a character is one of the    *)
(* one-element names below ("a", "[", ESC, ...).  The alphabet is a sample *)
(* of each character class the code distinguishes.                         *)
(***************************************************************************)
EXTENDS Integers, Sequences, FiniteSets, TLC

VARIABLES
    op,              \* the exposed operation being called
    pc,              \* position inside the call
    text,            \* the input string
    ctl_width,       \* columns UnicodeWidthStr::width gives a control character
    vis1, vis2,      \* visible(text), visible(visible(text))
    code_list,       \* input of ansi_collapse
    once, twice,     \* ansi_collapse(code_list), ansi_collapse(once)
    i, current, words,                       \* split_text locals
    width, indent, first_prefix, next_prefix,
    force_truncate, preserve_format,         \* text_wrap arguments
    k, lines, current_line, current_style, truncated,  \* text_wrap locals
    current_width, active_codes              \* wrap_ansi locals

vars == <<op, pc, text, ctl_width, vis1, vis2, code_list, once, twice,
          i, current, words, width, indent, first_prefix, next_prefix,
          force_truncate, preserve_format, k, lines, current_line,
          current_style, truncated, current_width, active_codes>>

visVars   == <<vis1, vis2>>
colVars   == <<code_list, once, twice>>
splitVars == <<i, current, words>>
argVars   == <<width, indent, first_prefix, next_prefix, force_truncate,
               preserve_format>>
wrapVars  == <<k, lines, current_line, current_style, truncated>>
ansiVars  == <<current_width, active_codes>>

-----------------------------------------------------------------------------
(* Characters *)

ESC  == "ESC"     \* '\x1b'
BEL  == "BEL"     \* '\x07'
NL   == "NL"      \* '\n'
WIDE == "WIDE"    \* a double-width character such as a CJK ideograph
ZW   == "ZW"      \* a zero-width (combining) character
ELLIPSIS == "ELLIPSIS"   \* U+2026, one column

Digits       == {"0", "1", "2", "3", "4", "5", "6", "7", "8", "9"}
AsciiLetters == {"a", "m", "K"}
Whitespace   == {" ", NL}
Control      == {ESC, BEL, NL}

\* char::is_ascii_alphabetic
is_ascii_alphabetic(c) == c \in AsciiLetters

\* char::is_whitespace
is_whitespace(c) == c \in Whitespace

\* unicode_width::UnicodeWidthChar::width(ch).unwrap_or(1): None for a
\* control character
CharWidthOr1(c) ==
    IF c = WIDE THEN 2 ELSE IF c = ZW THEN 0 ELSE 1

\* unicode_width::UnicodeWidthStr::width: the sum over the characters; a
\* control character counts 0 columns before unicode-width 0.1.13 and 1
\* column from it on, so the build decides (ctl_width).
RECURSIVE StrWidth(_)
StrWidth(s) ==
    IF s = <<>> THEN 0
    ELSE (IF Head(s) \in Control THEN ctl_width ELSE CharWidthOr1(Head(s)))
         + StrWidth(Tail(s))

RECURSIVE Concat(_)
Concat(ss) == IF ss = <<>> THEN <<>> ELSE Head(ss) \o Concat(Tail(ss))

RECURSIVE Repeat(_, _)
Repeat(c, n) == IF n <= 0 THEN <<>> ELSE <<c>> \o Repeat(c, n - 1)

starts_with(s, p) == Len(p) <= Len(s) /\ SubSeq(s, 1, Len(p)) = p

\* a.saturating_sub(b)
saturating_sub(a, b) == IF a >= b THEN a - b ELSE 0

-----------------------------------------------------------------------------
(* Escape scanner: utils.rs *)

RECURSIVE SkipWhile(_, _, _)
SkipWhile(s, j, S) ==
    IF j <= Len(s) /\ s[j] \in S THEN SkipWhile(s, j + 1, S) ELSE j

\* `.*?\\` : the first backslash at or after j, reached over characters other
\* than '\n' ('.' does not match a newline); 0 when there is none.
RECURSIVE LazyToBackslash(_, _)
LazyToBackslash(s, j) ==
    IF j > Len(s) THEN 0
    ELSE IF s[j] = "\\" THEN j
    ELSE IF s[j] = NL THEN 0
    ELSE LazyToBackslash(s, j + 1)

\* ANSIESCAPE = \x1b(?:\[[0-9;?]*[a-zA-Z]|\][0-9]*;;.*?\\|\))
\* the index of the last character of the match starting at p, 0 for no match
ANSIESCAPE(s, p) ==
    IF p + 1 > Len(s) \/ s[p] # ESC THEN 0
    ELSE CASE s[p + 1] = "[" ->
                LET j == SkipWhile(s, p + 2, Digits \cup {";", "?"})
                IN  IF j <= Len(s) /\ s[j] \in AsciiLetters THEN j ELSE 0
           [] s[p + 1] = "]" ->
                LET j == SkipWhile(s, p + 2, Digits)
                IN  IF j + 1 <= Len(s) /\ s[j] = ";" /\ s[j + 1] = ";"
                    THEN LazyToBackslash(s, j + 2)
                    ELSE 0
           [] s[p + 1] = ")" -> p + 1
           [] OTHER -> 0

\* ESCAPE = \x1b\[[0-9;]*[mK]
ESCAPE(s, p) ==
    IF p + 1 > Len(s) \/ s[p] # ESC \/ s[p + 1] # "[" THEN 0
    ELSE LET j == SkipWhile(s, p + 2, Digits \cup {";"})
         IN  IF j <= Len(s) /\ s[j] \in {"m", "K"} THEN j ELSE 0

\* ANSIESCAPE_RE.replace_all(text, ""): leftmost non-overlapping matches
RECURSIVE ReplaceAllFrom(_, _)
ReplaceAllFrom(s, p) ==
    IF p > Len(s) THEN <<>>
    ELSE LET e == ANSIESCAPE(s, p)
         IN  IF e > 0 THEN ReplaceAllFrom(s, e + 1)
             ELSE <<s[p]>> \o ReplaceAllFrom(s, p + 1)

visible(s) == ReplaceAllFrom(s, 1)

visible_length(s) == StrWidth(visible(s))

\* ESCAPE_RE.find_iter(text): the matches in order of appearance
RECURSIVE FindIterFrom(_, _)
FindIterFrom(s, p) ==
    IF p > Len(s) THEN <<>>
    ELSE LET e == ESCAPE(s, p)
         IN  IF e > 0 THEN <<SubSeq(s, p, e)>> \o FindIterFrom(s, e + 1)
             ELSE FindIterFrom(s, p + 1)

extract_ansi_codes(s) == FindIterFrom(s, 1)

-----------------------------------------------------------------------------
(* SGR collapser: utils.rs *)

DigitVal(c) ==
    CASE c = "0" -> 0 [] c = "1" -> 1 [] c = "2" -> 2 [] c = "3" -> 3
      [] c = "4" -> 4 [] c = "5" -> 5 [] c = "6" -> 6 [] c = "7" -> 7
      [] c = "8" -> 8 [] c = "9" -> 9

\* str::parse::<u32>(): -1 stands for Err (an empty token or a non-digit; the
\* tokens of the inputs below have at most three digits, far from overflow)
RECURSIVE ParseDigits(_, _)
ParseDigits(tok, acc) ==
    IF tok = <<>> THEN acc
    ELSE IF Head(tok) \notin Digits THEN -1
    ELSE ParseDigits(Tail(tok), acc * 10 + DigitVal(Head(tok)))

ParseU32(tok) == IF tok = <<>> THEN -1 ELSE ParseDigits(tok, 0)

\* str::trim_start_matches(prefix): the prefix is removed repeatedly
RECURSIVE trim_start_matches(_, _)
trim_start_matches(s, p) ==
    IF starts_with(s, p) /\ p # <<>>
    THEN trim_start_matches(SubSeq(s, Len(p) + 1, Len(s)), p)
    ELSE s

\* str::trim_end_matches(char): the character is removed repeatedly
RECURSIVE trim_end_matches(_, _)
trim_end_matches(s, c) ==
    IF s # <<>> /\ s[Len(s)] = c
    THEN trim_end_matches(SubSeq(s, 1, Len(s) - 1), c)
    ELSE s

\* str::split(';'): the pieces between the separators, empty ones included
RECURSIVE SplitOn(_, _, _)
SplitOn(s, sep, cur) ==
    IF s = <<>> THEN <<cur>>
    ELSE IF Head(s) = sep THEN <<cur>> \o SplitOn(Tail(s), sep, <<>>)
    ELSE SplitOn(Tail(s), sep, Append(cur, Head(s)))

\* .filter_map(|s| s.parse().ok()).collect()
RECURSIVE FilterParse(_)
FilterParse(toks) ==
    IF toks = <<>> THEN <<>>
    ELSE LET v == ParseU32(Head(toks))
         IN  (IF v >= 0 THEN <<v>> ELSE <<>>) \o FilterParse(Tail(toks))

parse_sgr_params(code) ==
    LET inner == trim_end_matches(
                     trim_end_matches(
                         trim_start_matches(code, <<ESC, "[">>), "m"), "K")
    IN  IF inner = <<>> THEN <<0>>
        ELSE FilterParse(SplitOn(inner, ";", <<>>))

\* LastReset with `position` for `rposition`: the first full reset, not the last
LastResetFirst(cl, n) ==
    LET R == {m \in 1..n : parse_sgr_params(cl[m]) = <<0>>}
    IN  IF R = {} THEN 0 ELSE CHOOSE m \in R : \A r \in R : m <= r

\* code_list.iter().rposition(|c| parse_sgr_params(c) == vec![0]); 0 for None
RECURSIVE LastReset(_, _)
LastReset(cl, n) ==
    IF n = 0 THEN 0
    ELSE IF parse_sgr_params(cl[n]) = <<0>> THEN n
    ELSE LastReset(cl, n - 1)

\* the slots of ansi_collapse; "none" is Option::None
EmptyStyle ==
    [bold |-> "none", dim |-> "none", italic |-> "none", underline |-> "none",
     strikeout |-> "none", fg |-> "none", bg |-> "none", passthrough |-> <<>>]

\* the body of `for code in effective`
CollapseStep(st, code) ==
    LET params == parse_sgr_params(code)
    IN  IF params = <<>> THEN st
        ELSE LET p == params[1]
             IN  CASE p = 0 -> st
                   [] p = 1 -> [st EXCEPT !.bold = code]
                   [] p = 2 -> [st EXCEPT !.dim = code]
                   [] p = 3 -> [st EXCEPT !.italic = code]
                   [] p = 4 -> [st EXCEPT !.underline = code]
                   [] p = 9 -> [st EXCEPT !.strikeout = code]
                   [] p = 22 -> [st EXCEPT !.bold = "none", !.dim = "none"]
                   [] p = 23 -> [st EXCEPT !.italic = "none"]
                   [] p = 24 -> [st EXCEPT !.underline = "none"]
                   [] p = 29 -> [st EXCEPT !.strikeout = "none"]
                   [] p = 38 -> [st EXCEPT !.fg = code]
                   [] p = 39 -> [st EXCEPT !.fg = "none"]
                   [] p = 48 -> [st EXCEPT !.bg = code]
                   [] p = 49 -> [st EXCEPT !.bg = "none"]
                   [] p \in (30..37) \cup (90..97) -> [st EXCEPT !.fg = code]
                   [] p \in (40..47) \cup (100..107) -> [st EXCEPT !.bg = code]
                   [] OTHER -> [st EXCEPT !.passthrough = Append(@, code)]

RECURSIVE CollapseFold(_, _)
CollapseFold(st, codes) ==
    IF codes = <<>> THEN st
    ELSE CollapseFold(CollapseStep(st, Head(codes)), Tail(codes))

\* attrs.join(";")
RECURSIVE Join(_, _)
Join(ss, sep) ==
    IF ss = <<>> THEN <<>>
    ELSE IF Len(ss) = 1 THEN Head(ss)
    ELSE Head(ss) \o sep \o Join(Tail(ss), sep)

\* CollapseEmit that pushes the colours before the combined attribute code
CollapseEmitColoursFirst(st) ==
    LET attrs == (IF st.bold # "none" THEN <<(<<"1">>)>> ELSE <<>>)
              \o (IF st.dim # "none" THEN <<(<<"2">>)>> ELSE <<>>)
              \o (IF st.italic # "none" THEN <<(<<"3">>)>> ELSE <<>>)
              \o (IF st.underline # "none" THEN <<(<<"4">>)>> ELSE <<>>)
              \o (IF st.strikeout # "none" THEN <<(<<"9">>)>> ELSE <<>>)
    IN  (IF st.fg # "none" THEN <<st.fg>> ELSE <<>>)
        \o (IF st.bg # "none" THEN <<st.bg>> ELSE <<>>)
        \o (IF attrs # <<>>
            THEN <<(<<ESC, "[">> \o Join(attrs, <<";">>) \o <<"m">>)>>
            ELSE <<>>)
        \o st.passthrough

\* the emission of ansi_collapse: combined attributes, fg, bg, passthrough
CollapseEmit(st) ==
    LET attrs == (IF st.bold # "none" THEN <<(<<"1">>)>> ELSE <<>>)
              \o (IF st.dim # "none" THEN <<(<<"2">>)>> ELSE <<>>)
              \o (IF st.italic # "none" THEN <<(<<"3">>)>> ELSE <<>>)
              \o (IF st.underline # "none" THEN <<(<<"4">>)>> ELSE <<>>)
              \o (IF st.strikeout # "none" THEN <<(<<"9">>)>> ELSE <<>>)
    IN  (IF attrs # <<>>
         THEN <<(<<ESC, "[">> \o Join(attrs, <<";">>) \o <<"m">>)>>
         ELSE <<>>)
        \o (IF st.fg # "none" THEN <<st.fg>> ELSE <<>>)
        \o (IF st.bg # "none" THEN <<st.bg>> ELSE <<>>)
        \o st.passthrough

ansi_collapse(cl) ==
    IF cl = <<>> THEN <<>>
    ELSE LET reset_idx == LastReset(cl, Len(cl))
             effective == SubSeq(cl, reset_idx + 1, Len(cl))
         IN  CollapseEmit(CollapseFold(EmptyStyle, effective))

-----------------------------------------------------------------------------
(* Word tokenizer: text.rs, split_text.  i is the 0-based index of the code,  *)
(* so chars[i] of the code is chars[i + 1] here.                              *)

\* the CSI arm's inner loop from index j: through the first ASCII letter
RECURSIVE ScanCsi(_, _)
ScanCsi(chars, j) ==
    IF j >= Len(chars) THEN j
    ELSE IF is_ascii_alphabetic(chars[j + 1]) THEN j + 1
    ELSE ScanCsi(chars, j + 1)

\* ScanOsc without the OSC arm: only the ']' is consumed, so the body of the
\* sequence is tokenized as plain text
ScanOscUnaware(chars, j) == IF j >= Len(chars) THEN j ELSE j + 1

\* the OSC arm's inner loop from index j: through BEL or ESC '\'
RECURSIVE ScanOsc(_, _)
ScanOsc(chars, j) ==
    IF j >= Len(chars) THEN j
    ELSE IF chars[j + 1] = BEL THEN j + 1
    ELSE IF chars[j + 1] = ESC /\ j + 1 < Len(chars) /\ chars[j + 2] = "\\"
         THEN j + 2
    ELSE ScanOsc(chars, j + 1)

\* the whitespace arm's inner loop from index j: the maximal whitespace run
RECURSIVE ScanWhitespace(_, _)
ScanWhitespace(chars, j) ==
    IF j < Len(chars) /\ is_whitespace(chars[j + 1])
    THEN ScanWhitespace(chars, j + 1)
    ELSE j

\* EscapeArm whose fallback arm forgets `i += 1`
EscapeArmStuck(chars, j) ==
    IF j + 1 < Len(chars) /\ chars[j + 2] = "["
    THEN ScanCsi(chars, j + 1)
    ELSE IF j + 1 < Len(chars) /\ chars[j + 2] = "]"
    THEN ScanOsc(chars, j + 1)
    ELSE j

\* `if ch == '\x1b'`: the index after the escape arm chosen by the next char
EscapeArm(chars, j) ==
    IF j + 1 < Len(chars) /\ chars[j + 2] = "["
    THEN ScanCsi(chars, j + 1)
    ELSE IF j + 1 < Len(chars) /\ chars[j + 2] = "]"
    THEN ScanOsc(chars, j + 1)
    ELSE j + 1

\* one iteration of `while i < chars.len()`
SplitIter(chars, st) ==
    LET ch == chars[st.i + 1]
    IN  IF ch = ESC
        THEN LET j == EscapeArm(chars, st.i)
             IN  [i |-> j,
                  current |-> st.current \o SubSeq(chars, st.i + 1, j),
                  words |-> st.words]
        ELSE IF is_whitespace(ch)
        THEN LET j == ScanWhitespace(chars, st.i + 1)
                 cur == st.current \o SubSeq(chars, st.i + 1, j)
             IN  IF cur # <<>>
                 THEN [i |-> j, current |-> <<>>, words |-> Append(st.words, cur)]
                 ELSE [i |-> j, current |-> cur, words |-> st.words]
        ELSE [i |-> st.i + 1,
              current |-> Append(st.current, ch),
              words |-> st.words]

\* SplitEnd that forgets the unit still being built when the input ends
SplitEndForgets(st) == st.words

\* after the loop: `if !current.is_empty() { words.push(current) }`
SplitEnd(st) ==
    IF st.current # <<>> THEN Append(st.words, st.current) ELSE st.words

RECURSIVE SplitLoop(_, _)
SplitLoop(chars, st) ==
    IF st.i >= Len(chars) THEN st ELSE SplitLoop(chars, SplitIter(chars, st))

split_text(chars) ==
    SplitEnd(SplitLoop(chars, [i |-> 0, current |-> <<>>, words |-> <<>>]))

-----------------------------------------------------------------------------
(* Line wrapper: text.rs, text_wrap and truncate_to_visible *)

RESET == <<ESC, "[", "0", "m">>

\* the `for ch in text.chars()` of truncate_to_visible
RECURSIVE TruncateFrom(_, _, _, _, _)
TruncateFrom(s, p, max_visible, visible_count, in_escape) ==
    IF p > Len(s) THEN <<>>
    ELSE LET ch == s[p]
         IN  IF in_escape
             THEN <<ch>> \o TruncateFrom(s, p + 1, max_visible, visible_count,
                                         ch # "m")
             ELSE IF ch = ESC
             THEN <<ch>> \o TruncateFrom(s, p + 1, max_visible, visible_count,
                                         TRUE)
             ELSE IF visible_count >= max_visible THEN <<>>
             ELSE <<ch>> \o TruncateFrom(s, p + 1, max_visible,
                                         visible_count + CharWidthOr1(ch), FALSE)

truncate_to_visible(s, max_visible) == TruncateFrom(s, 1, max_visible, 0, FALSE)

\* visible(..).trim().is_empty()
TrimIsEmpty(s) == \A n \in 1..Len(s) : is_whitespace(s[n])

\* `if force_truncate && visible_length(&line_content) > width { ... }`
ForceTruncate(line_content, w, force) ==
    IF force /\ visible_length(line_content) > w
    THEN [line |-> Append(truncate_to_visible(line_content, saturating_sub(w, 1)),
                          ELLIPSIS),
          truncated |-> TRUE]
    ELSE [line |-> line_content, truncated |-> FALSE]

Resetter(preserve) == IF preserve THEN <<>> ELSE RESET

\* the line finished inside the loop: prefix, truncation, resetter, padding
FinishLine(prefix, cur, w, force, preserve) ==
    LET t == ForceTruncate(prefix \o cur, w, force)
        padding == saturating_sub(w, visible_length(t.line))
    IN  [line |-> t.line \o Resetter(preserve) \o Repeat(" ", padding),
         truncated |-> t.truncated]

\* the line finished after the loop: prefix, truncation, resetter
FinishLastLine(prefix, cur, w, force, preserve) ==
    LET t == ForceTruncate(prefix \o cur, w, force)
    IN  [line |-> t.line \o Resetter(preserve), truncated |-> t.truncated]

\* `if !codes.is_empty() && word.starts_with(&codes[0]) { current_style.push }`
StyleBefore(style, word) ==
    LET codes == extract_ansi_codes(word)
    IN  IF codes # <<>> /\ starts_with(word, codes[1])
        THEN Append(style, codes[1])
        ELSE style

\* "Update style tracking": the remaining codes, then ansi_collapse
StyleAfter(style, word) ==
    LET codes == extract_ansi_codes(word)
        skip  == IF codes # <<>> /\ starts_with(word, codes[1]) THEN 1 ELSE 0
    IN  ansi_collapse(StyleBefore(style, word)
                      \o SubSeq(codes, skip + 1, Len(codes)))

\* EffectiveWidth that leaves the prefixes out of the budget
EffectiveWidthNoPrefix(ls, w, first, next) == w

\* `let effective_width = if lines.is_empty() { .. } else { .. }`
EffectiveWidth(ls, w, first, next) ==
    IF ls = <<>> THEN saturating_sub(w, visible_length(first))
    ELSE saturating_sub(w, visible_length(next))

\* `let prefix = if lines.is_empty() { first_prefix } else { next_prefix }`
Prefix(ls, first, next) == IF ls = <<>> THEN first ELSE next

\* the word fits on the current line
Fits(word, cur, ls, w, first, next) ==
    /\ visible_length(word) > 0
    /\ visible_length(cur) + visible_length(word) <= EffectiveWidth(ls, w, first, next)

\* "Start new line with current word"
NewLine(ind, style, word) == Repeat(" ", ind) \o Concat(style) \o word

-----------------------------------------------------------------------------
(* Inputs *)

\* the sequences over A of length at most n
RECURSIVE StringsUpTo(_, _)
StringsUpTo(A, n) ==
    IF n = 0 THEN {<<>>}
    ELSE LET S == StringsUpTo(A, n - 1)
         IN  S \cup {Append(s, c) : s \in {t \in S : Len(t) = n - 1}, c \in A}

MaxVisLen == 5

VisAlphabet == {ESC, "[", "m", ")", "a"}

\* visible is also given texts built from whole escape codes: SGR, erase,
\* another CSI, an OSC ended by BEL and an OSC 8 ended by ESC '\'
VisPieces ==
    { <<"a">>, <<" ">>, <<ESC, "[", "1", "m">>, <<ESC, "[", "K">>,
      <<ESC, "[", "2", "a">>, <<ESC, "]", "0", ";", "a", BEL>>,
      <<ESC, "]", "8", ";", ";", "a", ESC, "\\">> }

MaxSplitLen == 5

\* a sample of each class split_text tells apart: the escape introducers and
\* terminators, a letter, whitespace
SplitAlphabet == {ESC, "[", "]", "a", " ", BEL, "\\"}

MaxPieces == 3

MaxWidth == 3

\* text_wrap inputs are built from: a narrow letter, a space, a wide
\* character, an SGR code, an OSC 8 hyperlink whose URL is "ma", and the CSI
\* introducer alone (unterminated unless a letter follows)
WrapPieces ==
    { <<"a">>, <<" ">>, <<WIDE>>, <<ESC, "[", "1", "m">>,
      <<ESC, "]", "8", ";", ";", "m", "a", ESC, "\\">>,
      <<ESC, "[">> }

WrapTexts == {Concat(ps) : ps \in StringsUpTo(WrapPieces, MaxPieces)}

VisTexts == {Concat(ps) : ps \in StringsUpTo(VisPieces, MaxPieces)}

Indents == {0, 1}

Prefixes == {<<>>, <<">">>}

MaxCodes == 3

\* "\x1b[<body>m"
Sgr(body) == <<ESC, "[">> \o body \o <<"m">>

\* full resets (empty body and 0), attributes, clears, legacy and indexed
\* colours, a passthrough code (blink), a code with two parameters and a code
\* whose first parameter is 0 without being a full reset
Codes ==
    { Sgr(<<>>), Sgr(<<"0">>), Sgr(<<"1">>), Sgr(<<"2">>), Sgr(<<"4">>),
      Sgr(<<"2", "2">>), Sgr(<<"3", "1">>), Sgr(<<"3", "8", ";", "5", ";", "1">>),
      Sgr(<<"3", "9">>), Sgr(<<"4", "1">>), Sgr(<<"5">>),
      Sgr(<<"1", ";", "3", "1">>), Sgr(<<"0", ";", "1">>) }

-----------------------------------------------------------------------------
(* Idle values of the locals of the operations that are not running *)

IdleVis   == vis1 = <<>> /\ vis2 = <<>>
IdleCol   == code_list = <<>> /\ once = <<>> /\ twice = <<>>
IdleSplit == i = 0 /\ current = <<>> /\ words = <<>>
IdleArgs  == /\ width = 0 /\ indent = 0 /\ first_prefix = <<>>
             /\ next_prefix = <<>> /\ force_truncate = FALSE
             /\ preserve_format = FALSE
IdleWrap  == /\ k = 0 /\ lines = <<>> /\ current_line = <<>>
             /\ current_style = <<>> /\ truncated = FALSE
IdleAnsi  == current_width = 0 /\ active_codes = <<>>

-----------------------------------------------------------------------------
(* visible, called once and then on its own result *)

InitVisible ==
    /\ op = "visible" /\ pc = "call"
    /\ text \in StringsUpTo(VisAlphabet, MaxVisLen) \cup VisTexts
    /\ ctl_width \in {0, 1}
    /\ IdleVis /\ IdleCol /\ IdleSplit /\ IdleArgs /\ IdleWrap /\ IdleAnsi

Visible ==
    /\ op = "visible" /\ pc = "call"
    /\ vis1' = visible(text)
    /\ pc' = "again"
    /\ UNCHANGED <<op, text, ctl_width, vis2, ansiVars, colVars, splitVars, argVars, wrapVars>>

VisibleAgain ==
    /\ op = "visible" /\ pc = "again"
    /\ vis2' = visible(vis1)
    /\ pc' = "done"
    /\ UNCHANGED <<op, text, ctl_width, vis1, ansiVars, colVars, splitVars, argVars, wrapVars>>

NextVisible == Visible \/ VisibleAgain

SpecVisible == InitVisible /\ [][NextVisible]_vars

-----------------------------------------------------------------------------
(* ansi_collapse, called once and then on its own result *)

InitCollapse ==
    /\ op = "ansi_collapse" /\ pc = "call"
    /\ text = <<>> /\ ctl_width = 1
    /\ code_list \in StringsUpTo(Codes, MaxCodes)
    /\ once = <<>> /\ twice = <<>>
    /\ IdleVis /\ IdleSplit /\ IdleArgs /\ IdleWrap /\ IdleAnsi

Collapse ==
    /\ op = "ansi_collapse" /\ pc = "call"
    /\ once' = ansi_collapse(code_list)
    /\ pc' = "again"
    /\ UNCHANGED <<op, text, ctl_width, ansiVars, visVars, code_list, twice, splitVars,
                   argVars, wrapVars>>

CollapseAgain ==
    /\ op = "ansi_collapse" /\ pc = "again"
    /\ twice' = ansi_collapse(once)
    /\ pc' = "done"
    /\ UNCHANGED <<op, text, ctl_width, ansiVars, visVars, code_list, once, splitVars,
                   argVars, wrapVars>>

NextCollapse == Collapse \/ CollapseAgain

SpecCollapse == InitCollapse /\ [][NextCollapse]_vars

-----------------------------------------------------------------------------
(* split_text, one loop iteration per step *)

InitSplit ==
    /\ op = "split_text" /\ pc = "loop"
    /\ text \in StringsUpTo(SplitAlphabet, MaxSplitLen)
    /\ ctl_width = 1
    /\ i = 0 /\ current = <<>> /\ words = <<>>
    /\ IdleVis /\ IdleCol /\ IdleArgs /\ IdleWrap /\ IdleAnsi

SplitApply ==
    LET st == SplitIter(text, [i |-> i, current |-> current, words |-> words])
    IN  /\ i' = st.i /\ current' = st.current /\ words' = st.words
        /\ UNCHANGED <<op, pc, text, ctl_width, ansiVars, visVars, colVars, argVars, wrapVars>>

SplitEscape ==
    /\ op = "split_text" /\ pc = "loop"
    /\ i < Len(text) /\ text[i + 1] = ESC
    /\ SplitApply

SplitWhitespace ==
    /\ op = "split_text" /\ pc = "loop"
    /\ i < Len(text) /\ text[i + 1] # ESC /\ is_whitespace(text[i + 1])
    /\ SplitApply

SplitChar ==
    /\ op = "split_text" /\ pc = "loop"
    /\ i < Len(text) /\ text[i + 1] # ESC /\ ~is_whitespace(text[i + 1])
    /\ SplitApply

SplitReturn ==
    /\ op = "split_text" /\ pc = "loop"
    /\ i >= Len(text)
    /\ words' = SplitEnd([i |-> i, current |-> current, words |-> words])
    /\ current' = <<>>
    /\ pc' = "done"
    /\ UNCHANGED <<op, text, ctl_width, i, ansiVars, visVars, colVars, argVars, wrapVars>>

NextSplit == SplitEscape \/ SplitWhitespace \/ SplitChar \/ SplitReturn

SpecSplit == InitSplit /\ [][NextSplit]_vars

-----------------------------------------------------------------------------
(* text_wrap, one iteration of the word loop per step *)

InitWrap ==
    /\ op = "text_wrap" /\ pc = "call"
    /\ text \in WrapTexts
    /\ ctl_width \in {0, 1}
    /\ width \in 0..MaxWidth
    /\ indent \in Indents
    /\ first_prefix \in Prefixes
    /\ next_prefix \in Prefixes
    /\ force_truncate \in BOOLEAN
    /\ preserve_format \in BOOLEAN
    /\ IdleVis /\ IdleCol /\ IdleSplit /\ IdleWrap /\ IdleAnsi

\* `if width == 0 { return WrappedText::empty(); }`
WrapZeroWidth ==
    /\ op = "text_wrap" /\ pc = "call"
    /\ width = 0
    /\ lines' = <<>> /\ truncated' = FALSE
    /\ pc' = "done"
    /\ UNCHANGED <<op, text, ctl_width, ansiVars, visVars, colVars, splitVars, argVars,
                   k, current_line, current_style>>

\* `let words = split_text(text); if words.is_empty() { return empty }`
WrapTokenize ==
    /\ op = "text_wrap" /\ pc = "call"
    /\ width # 0
    /\ words' = split_text(text)
    /\ IF words' = <<>>
       THEN pc' = "done" /\ k' = k
       ELSE pc' = "loop" /\ k' = 1
    /\ UNCHANGED <<op, text, ctl_width, ansiVars, visVars, colVars, i, current, argVars,
                   lines, current_line, current_style, truncated>>

\* the k-th element of words.iter().chain(once(&String::new()))
Word == IF k <= Len(words) THEN words[k] ELSE <<>>

InLoop == op = "text_wrap" /\ pc = "loop" /\ k >= 1 /\ k <= Len(words) + 1

WrapFrame ==
    UNCHANGED <<op, pc, text, ctl_width, ansiVars, visVars, colVars, splitVars, argVars>>

\* "Word fits": it is appended to the current line
WrapFit ==
    /\ InLoop
    /\ Fits(Word, current_line, lines, width, first_prefix, next_prefix)
    /\ current_line' = current_line \o Word
    /\ current_style' = StyleAfter(current_style, Word)
    /\ k' = k + 1
    /\ UNCHANGED <<lines, truncated>>
    /\ WrapFrame

\* "Word doesn't fit": the current line is finished and a new one started
WrapBreak ==
    /\ InLoop
    /\ visible_length(Word) > 0
    /\ ~Fits(Word, current_line, lines, width, first_prefix, next_prefix)
    /\ LET f == FinishLine(Prefix(lines, first_prefix, next_prefix),
                           current_line, width, force_truncate, preserve_format)
       IN  IF current_line # <<>>
           THEN /\ truncated' = (truncated \/ f.truncated)
                /\ lines' = IF ~TrimIsEmpty(visible(f.line))
                            THEN Append(lines, f.line)
                            ELSE lines
           ELSE UNCHANGED <<lines, truncated>>
    /\ current_line' = NewLine(indent, StyleBefore(current_style, Word), Word)
    /\ current_style' = StyleAfter(current_style, Word)
    /\ k' = k + 1
    /\ WrapFrame

\* a word of no visible width (the closing empty word included) is not placed
WrapSkip ==
    /\ InLoop
    /\ visible_length(Word) = 0
    /\ current_style' = StyleAfter(current_style, Word)
    /\ k' = k + 1
    /\ UNCHANGED <<lines, current_line, truncated>>
    /\ WrapFrame

\* "Don't forget the last line", and the return
WrapLast ==
    /\ op = "text_wrap" /\ pc = "loop" /\ k = Len(words) + 2
    /\ LET f == FinishLastLine(Prefix(lines, first_prefix, next_prefix),
                               current_line, width, force_truncate,
                               preserve_format)
       IN  IF current_line # <<>> /\ ~TrimIsEmpty(visible(current_line))
           THEN /\ truncated' = (truncated \/ f.truncated)
                /\ lines' = Append(lines, f.line)
           ELSE UNCHANGED <<lines, truncated>>
    /\ pc' = "done"
    /\ UNCHANGED <<op, text, ctl_width, ansiVars, visVars, colVars, splitVars, argVars,
                   k, current_line, current_style>>

NextWrap ==
    WrapZeroWidth \/ WrapTokenize \/ WrapFit \/ WrapBreak \/ WrapSkip \/ WrapLast

SpecWrap == InitWrap /\ [][NextWrap]_vars

-----------------------------------------------------------------------------
(* Plain wrapper: text.rs, simple_wrap, one word per step *)

\* str::split_whitespace: the non-empty pieces between whitespace
RECURSIVE SplitWs(_, _)
SplitWs(s, cur) ==
    IF s = <<>> THEN (IF cur = <<>> THEN <<>> ELSE <<cur>>)
    ELSE IF is_whitespace(Head(s))
    THEN (IF cur = <<>> THEN <<>> ELSE <<cur>>) \o SplitWs(Tail(s), <<>>)
    ELSE SplitWs(Tail(s), Append(cur, Head(s)))

split_whitespace(s) == SplitWs(s, <<>>)

\* SimpleFits without the column of the joining space
SimpleFitsNoGap(cur, word, w) == StrWidth(cur) + StrWidth(word) <= w

\* `current_len + 1 + word_len <= width`
SimpleFits(cur, word, w) == StrWidth(cur) + 1 + StrWidth(word) <= w

MaxPlainLen == 6

PlainAlphabet == {"a", " ", WIDE, NL}

InitSimple ==
    /\ op = "simple_wrap" /\ pc = "call"
    /\ text \in StringsUpTo(PlainAlphabet, MaxPlainLen)
    /\ ctl_width = 1
    /\ width \in 0..MaxWidth
    /\ indent = 0 /\ first_prefix = <<>> /\ next_prefix = <<>>
    /\ force_truncate = FALSE /\ preserve_format = FALSE
    /\ IdleVis /\ IdleCol /\ IdleSplit /\ IdleWrap /\ IdleAnsi

SimpleFrame ==
    UNCHANGED <<op, text, ctl_width, ansiVars, visVars, colVars, i, argVars,
                current_line, current_style, truncated>>

\* `if width == 0 || text.is_empty() { return vec![text.to_string()]; }`
SimpleTrivial ==
    /\ op = "simple_wrap" /\ pc = "call"
    /\ width = 0 \/ text = <<>>
    /\ lines' = <<text>>
    /\ pc' = "done"
    /\ UNCHANGED <<k, current, words>>
    /\ SimpleFrame

\* `for word in text.split_whitespace()` is entered
SimpleTokenize ==
    /\ op = "simple_wrap" /\ pc = "call"
    /\ ~(width = 0 \/ text = <<>>)
    /\ words' = split_whitespace(text)
    /\ k' = 1
    /\ pc' = "loop"
    /\ UNCHANGED <<lines, current>>
    /\ SimpleFrame

InSimpleLoop == op = "simple_wrap" /\ pc = "loop" /\ k >= 1 /\ k <= Len(words)

\* `if current.is_empty() { current = word.to_string(); }`
SimpleFirst ==
    /\ InSimpleLoop
    /\ current = <<>>
    /\ current' = words[k]
    /\ k' = k + 1
    /\ UNCHANGED <<pc, lines, words>>
    /\ SimpleFrame

\* the word joins the current line after a space
SimpleAppend ==
    /\ InSimpleLoop
    /\ current # <<>>
    /\ SimpleFits(current, words[k], width)
    /\ current' = current \o <<" ">> \o words[k]
    /\ k' = k + 1
    /\ UNCHANGED <<pc, lines, words>>
    /\ SimpleFrame

\* the current line is pushed and the word starts the next one
SimpleBreak ==
    /\ InSimpleLoop
    /\ current # <<>>
    /\ ~SimpleFits(current, words[k], width)
    /\ lines' = Append(lines, current)
    /\ current' = words[k]
    /\ k' = k + 1
    /\ UNCHANGED <<pc, words>>
    /\ SimpleFrame

\* after the loop: the last line, or one empty line when there is none
SimpleReturn ==
    /\ op = "simple_wrap" /\ pc = "loop" /\ k = Len(words) + 1
    /\ LET ls == IF current # <<>> THEN Append(lines, current) ELSE lines
       IN  lines' = IF ls = <<>> THEN <<(<<>>)>> ELSE ls
    /\ pc' = "done"
    /\ UNCHANGED <<k, current, words>>
    /\ SimpleFrame

NextSimple ==
    \/ SimpleTrivial \/ SimpleTokenize \/ SimpleFirst \/ SimpleAppend
    \/ SimpleBreak \/ SimpleReturn

SpecSimple == InitSimple /\ [][NextSimple]_vars

-----------------------------------------------------------------------------
(* Byte-oriented wrapper: utils.rs, wrap_ansi, one code or word per step *)

\* the first index from j on that holds an 'm', 0 when there is none
RECURSIVE FirstM(_, _)
FirstM(s, j) ==
    IF j > Len(s) THEN 0 ELSE IF s[j] = "m" THEN j ELSE FirstM(s, j + 1)

\* SPLIT_RE = (\x1b[^m]*m|[^\x1b]+), find_iter: an ESC that no 'm' follows
\* matches nothing and is passed over
RECURSIVE SplitUpFrom(_, _)
SplitUpFrom(s, p) ==
    IF p > Len(s) THEN <<>>
    ELSE IF s[p] = ESC
    THEN LET j == FirstM(s, p + 1)
         IN  IF j > 0 THEN <<SubSeq(s, p, j)>> \o SplitUpFrom(s, j + 1)
             ELSE SplitUpFrom(s, p + 1)
    ELSE LET b == SkipWhile(s, p, {c \in {s[q] : q \in 1..Len(s)} : c # ESC})
         IN  <<SubSeq(s, p, b - 1)>> \o SplitUpFrom(s, b)

split_up(s) == SplitUpFrom(s, 1)

is_ansi_code(s) == starts_with(s, <<ESC, "[">>)

\* str::split_inclusive(' '): each piece ends with its space
RECURSIVE SplitInclusive(_, _)
SplitInclusive(s, cur) ==
    IF s = <<>> THEN (IF cur = <<>> THEN <<>> ELSE <<cur>>)
    ELSE IF Head(s) = " "
    THEN <<Append(cur, " ")>> \o SplitInclusive(Tail(s), <<>>)
    ELSE SplitInclusive(Tail(s), Append(cur, Head(s)))

\* `params.contains(&0)`
Contains(ps, v) == \E n \in 1..Len(ps) : ps[n] = v

\* the iterations of the two nested loops in order: a code segment, or a
\* word of a text segment
RECURSIVE Iterations(_)
Iterations(segs) ==
    IF segs = <<>> THEN <<>>
    ELSE LET seg == Head(segs)
             pieces == SplitInclusive(seg, <<>>)
         IN  (IF is_ansi_code(seg) THEN <<[code |-> TRUE, s |-> seg]>>
              ELSE [n \in 1..Len(pieces) |-> [code |-> FALSE, s |-> pieces[n]]])
             \o Iterations(Tail(segs))

\* crate::codes::RESET
CodesReset == <<ESC, "[", "0", "m">>

\* wrap_ansi inputs are built from: a letter, a space, bold, the full reset
\* and a 256-colour code whose colour index is 0
AnsiPieces ==
    { <<"a">>, <<" ">>, <<ESC, "[", "1", "m">>, <<ESC, "[", "0", "m">>,
      <<ESC, "[", "3", "8", ";", "5", ";", "0", "m">> }

AnsiTexts == {Concat(ps) : ps \in StringsUpTo(AnsiPieces, MaxPieces)}

InitAnsi ==
    /\ op = "wrap_ansi" /\ pc = "call"
    /\ text \in AnsiTexts
    /\ ctl_width = 1
    /\ width \in 0..MaxWidth
    /\ indent = 0 /\ first_prefix = <<>> /\ next_prefix = <<>>
    /\ force_truncate = FALSE /\ preserve_format = FALSE
    /\ IdleVis /\ IdleCol /\ IdleSplit /\ IdleWrap /\ IdleAnsi

AnsiFrame ==
    UNCHANGED <<op, text, ctl_width, visVars, colVars, i, current, argVars,
                current_style, truncated>>

\* `if width == 0 { return vec![text.to_string()]; }`
AnsiZeroWidth ==
    /\ op = "wrap_ansi" /\ pc = "call"
    /\ width = 0
    /\ lines' = <<text>>
    /\ pc' = "done"
    /\ UNCHANGED <<k, words, current_line, ansiVars>>
    /\ AnsiFrame

\* the locals, and `for segment in split_up(text)` is entered
AnsiSegments ==
    /\ op = "wrap_ansi" /\ pc = "call"
    /\ width # 0
    /\ words' = Iterations(split_up(text))
    /\ k' = 1
    /\ pc' = "loop"
    /\ UNCHANGED <<lines, current_line, ansiVars>>
    /\ AnsiFrame

InAnsiLoop == op = "wrap_ansi" /\ pc = "loop" /\ k >= 1 /\ k <= Len(words)

\* "Track active formatting"
AnsiCode ==
    /\ InAnsiLoop
    /\ words[k].code
    /\ active_codes' = IF Contains(parse_sgr_params(words[k].s), 0)
                       THEN <<>>
                       ELSE Append(active_codes, words[k].s)
    /\ current_line' = current_line \o words[k].s
    /\ k' = k + 1
    /\ UNCHANGED <<pc, words, lines, current_width>>
    /\ AnsiFrame

\* `current_width + word_width > width && current_width > 0`
NeedWrap(cw, word, w) == cw + StrWidth(word) > w /\ cw > 0

\* a word that stays on the current line
AnsiWord ==
    /\ InAnsiLoop
    /\ ~words[k].code
    /\ ~NeedWrap(current_width, words[k].s, width)
    /\ current_line' = current_line \o words[k].s
    /\ current_width' = current_width + StrWidth(words[k].s)
    /\ k' = k + 1
    /\ UNCHANGED <<pc, words, lines, active_codes>>
    /\ AnsiFrame

\* "Need to wrap": the line is closed and the word opens the next one
AnsiWrap ==
    /\ InAnsiLoop
    /\ ~words[k].code
    /\ NeedWrap(current_width, words[k].s, width)
    /\ lines' = Append(lines, current_line
                              \o (IF active_codes # <<>> THEN CodesReset ELSE <<>>))
    /\ current_line' = Concat(active_codes) \o words[k].s
    /\ current_width' = StrWidth(words[k].s)
    /\ k' = k + 1
    /\ UNCHANGED <<pc, words, active_codes>>
    /\ AnsiFrame

\* `if !current_line.is_empty() || lines.is_empty() { lines.push(current_line) }`
AnsiReturn ==
    /\ op = "wrap_ansi" /\ pc = "loop" /\ k = Len(words) + 1
    /\ lines' = IF current_line # <<>> \/ lines = <<>>
                THEN Append(lines, current_line)
                ELSE lines
    /\ pc' = "done"
    /\ UNCHANGED <<k, words, current_line, ansiVars>>
    /\ AnsiFrame

NextAnsi ==
    \/ AnsiZeroWidth \/ AnsiSegments \/ AnsiCode \/ AnsiWord \/ AnsiWrap
    \/ AnsiReturn

SpecAnsi == InitAnsi /\ [][NextAnsi]_vars

-----------------------------------------------------------------------------
(* text_wrap on characters of every display width *)

\* a narrow letter, a space, a wide character, a zero-width character and an
\* SGR code
WidthPieces ==
    { <<"a">>, <<" ">>, <<WIDE>>, <<ZW>>, <<ESC, "[", "1", "m">> }

WidthTexts == {Concat(ps) : ps \in StringsUpTo(WidthPieces, MaxPieces)}

InitWrapWidths ==
    /\ op = "text_wrap" /\ pc = "call"
    /\ text \in WidthTexts
    /\ ctl_width = 1
    /\ width \in 0..MaxWidth
    /\ indent \in Indents
    /\ first_prefix \in Prefixes
    /\ next_prefix \in Prefixes
    /\ force_truncate \in BOOLEAN
    /\ preserve_format \in BOOLEAN
    /\ IdleVis /\ IdleCol /\ IdleSplit /\ IdleWrap /\ IdleAnsi

SpecWrapWidths == InitWrapWidths /\ [][NextWrap]_vars

-----------------------------------------------------------------------------
(* The calls of the word-aware operations together *)

InitCalls == InitSplit \/ InitWrap

NextCalls == NextSplit \/ NextWrap

SpecCalls == InitCalls /\ [][NextCalls]_vars

-----------------------------------------------------------------------------
(* Properties of ansi_collapse *)

\* C1: ansi_collapse is idempotent: collapsing the collapsed list again gives
\* the same list, for every ordered list of SGR codes.
CollapseIdempotent == pc = "done" /\ op = "ansi_collapse" => twice = once

\* The style a terminal holds after a list of SGR codes: every parameter of
\* every code is applied in order (ECMA-48 SGR).  <<>> is the default colour.
DefaultStyle ==
    [bold |-> FALSE, dim |-> FALSE, italic |-> FALSE, underline |-> FALSE,
     strikeout |-> FALSE, fg |-> <<>>, bg |-> <<>>, passthrough |-> <<>>]

\* the number of parameters an SGR parameter takes with it (38;5;n, 38;2;r;g;b)
ParamSpan(ps) ==
    IF ps[1] \in {38, 48} /\ Len(ps) >= 3 /\ ps[2] = 5 THEN 3
    ELSE IF ps[1] \in {38, 48} /\ Len(ps) >= 5 /\ ps[2] = 2 THEN 5
    ELSE 1

ApplyParam(st, ps) ==
    LET p == ps[1]
        n == ParamSpan(ps)
    IN  CASE p = 0 -> DefaultStyle
          [] p = 1 -> [st EXCEPT !.bold = TRUE]
          [] p = 2 -> [st EXCEPT !.dim = TRUE]
          [] p = 3 -> [st EXCEPT !.italic = TRUE]
          [] p = 4 -> [st EXCEPT !.underline = TRUE]
          [] p = 9 -> [st EXCEPT !.strikeout = TRUE]
          [] p = 22 -> [st EXCEPT !.bold = FALSE, !.dim = FALSE]
          [] p = 23 -> [st EXCEPT !.italic = FALSE]
          [] p = 24 -> [st EXCEPT !.underline = FALSE]
          [] p = 29 -> [st EXCEPT !.strikeout = FALSE]
          [] p = 38 /\ n > 1 -> [st EXCEPT !.fg = SubSeq(ps, 1, n)]
          [] p = 48 /\ n > 1 -> [st EXCEPT !.bg = SubSeq(ps, 1, n)]
          [] p = 39 -> [st EXCEPT !.fg = <<>>]
          [] p = 49 -> [st EXCEPT !.bg = <<>>]
          [] p \in (30..37) \cup (90..97) -> [st EXCEPT !.fg = <<p>>]
          [] p \in (40..47) \cup (100..107) -> [st EXCEPT !.bg = <<p>>]
          [] OTHER -> [st EXCEPT !.passthrough = Append(@, p)]

RECURSIVE ApplyParams(_, _)
ApplyParams(st, ps) ==
    IF ps = <<>> THEN st
    ELSE ApplyParams(ApplyParam(st, ps),
                     SubSeq(ps, ParamSpan(ps) + 1, Len(ps)))

RECURSIVE ApplyCodes(_, _)
ApplyCodes(st, codes) ==
    IF codes = <<>> THEN st
    ELSE ApplyCodes(ApplyParams(st, parse_sgr_params(Head(codes))), Tail(codes))

\* C3: ansi_collapse preserves the effective style: the collapsed codes applied
\* in order to a default style give the same style as the original codes.
CollapsePreservesStyle ==
    pc # "call" /\ op = "ansi_collapse" =>
        ApplyCodes(DefaultStyle, once) = ApplyCodes(DefaultStyle, code_list)

-----------------------------------------------------------------------------
(* Properties of visible *)

\* C5: visible is idempotent: visible(visible(s)) = visible(s) for every
\* string s.
VisibleIdempotent == pc = "done" /\ op = "visible" => vis2 = vis1

-----------------------------------------------------------------------------
(* Escape sequences as the data model defines them, read left to right:     *)
(* CSI is ESC '[' through the first ASCII letter, OSC is ESC ']' through    *)
(* BEL or ESC '\'.                                                          *)

\* the last index of the escape sequence that starts at p; 0 when it has no
\* terminator, p when the ESC at p introduces neither a CSI nor an OSC
SeqEnd(s, p) ==
    IF p < Len(s) /\ s[p + 1] = "["
    THEN LET E == {q \in (p + 2)..Len(s) : s[q] \in AsciiLetters}
         IN  IF E = {} THEN 0 ELSE CHOOSE q \in E : \A r \in E : q <= r
    ELSE IF p < Len(s) /\ s[p + 1] = "]"
    THEN LET E == {q \in (p + 2)..Len(s) :
                      \/ s[q] = BEL
                      \/ q >= p + 3 /\ s[q] = "\\" /\ s[q - 1] = ESC}
         IN  IF E = {} THEN 0 ELSE CHOOSE q \in E : \A r \in E : q <= r
    ELSE p

\* the complete CSI and OSC sequences of s from index p on, as <<first, last>>
RECURSIVE SeqSpans(_, _)
SeqSpans(s, p) ==
    IF p > Len(s) THEN {}
    ELSE IF s[p] # ESC THEN SeqSpans(s, p + 1)
    ELSE LET e == SeqEnd(s, p)
         IN  IF e = 0 THEN {}
             ELSE IF e = p THEN SeqSpans(s, p + 1)
             ELSE {<<p, e>>} \cup SeqSpans(s, e + 1)

\* every ESC of s opens a CSI or OSC sequence that also ends in s
RECURSIVE SeqsComplete(_, _)
SeqsComplete(s, p) ==
    IF p > Len(s) THEN TRUE
    ELSE IF s[p] # ESC THEN SeqsComplete(s, p + 1)
    ELSE LET e == SeqEnd(s, p)
         IN  e > p /\ SeqsComplete(s, e + 1)

\* the index in the input of the first character of unit u
RECURSIVE UnitStart(_, _)
UnitStart(ws, u) == IF u = 1 THEN 1 ELSE UnitStart(ws, u - 1) + Len(ws[u - 1])

-----------------------------------------------------------------------------
(* Properties of split_text *)

\* C8: split_text never splits an escape sequence: every complete CSI and OSC
\* sequence of the input lies entirely inside a single returned unit, also
\* when it contains whitespace.
SplitKeepsSequences ==
    op = "split_text" /\ pc = "done" =>
        \A sp \in SeqSpans(text, 1) :
            \E u \in 1..Len(words) :
                LET b == UnitStart(words, u)
                IN  /\ b <= sp[1]
                    /\ sp[2] <= b + Len(words[u]) - 1
                    /\ SubSeq(words[u], sp[1] - b + 1, sp[2] - b + 1)
                           = SubSeq(text, sp[1], sp[2])

\* a sequence with whitespace inside it was tokenized
SplitKeepsSequencesWitness ==
    /\ op = "split_text" /\ pc = "done"
    /\ \E sp \in SeqSpans(text, 1) :
           \E q \in sp[1]..sp[2] : is_whitespace(text[q])
    /\ Len(words) >= 2

\* the length of the whitespace run that opens s
RECURSIVE LeadingRun(_)
LeadingRun(s) ==
    IF s # <<>> /\ Head(s) \in Whitespace THEN 1 + LeadingRun(Tail(s)) ELSE 0

\* C10: for an input that begins with a whitespace run, split_text returns no
\* unit for that run: the units hold the input without it, and the first unit
\* begins with the first character after the run.
SplitDropsLeadingWhitespace ==
    op = "split_text" /\ pc = "done" /\ LeadingRun(text) > 0 =>
        LET n == LeadingRun(text)
        IN  /\ Concat(words) = SubSeq(text, n + 1, Len(text))
            /\ (n < Len(text) => words # <<>> /\ Head(words[1]) = text[n + 1])

-----------------------------------------------------------------------------
(* Properties of text_wrap *)

\* C2: with force_truncate set and width >= 1, every returned line has
\* visible_length(line) <= width.
ForceTruncateFits ==
    op = "text_wrap" /\ force_truncate /\ width >= 1 =>
        \A n \in 1..Len(lines) : visible_length(lines[n]) <= width

\* C4: text_wrap with width 0 returns the unmodified input as its only line,
\* with truncated = false.
ZeroWidthReturnsText ==
    op = "text_wrap" /\ pc = "done" /\ width = 0 =>
        lines = <<text>> /\ truncated = FALSE

\* an upper bound on the steps left: the characters not yet tokenized, or the
\* words not yet placed
Variant ==
    IF pc = "done" THEN 0
    ELSE IF op = "split_text" THEN Len(text) - i + 1
    ELSE IF pc = "call" THEN Len(text) + 3
    ELSE Len(words) + 3 - k

\* a call that has not returned can take a step that changes its state
NoStall ==
    pc # "done" =>
        IF op = "split_text" THEN ENABLED <<NextSplit>>_vars
        ELSE pc = "call" \/ (pc = "loop" /\ k >= 1 /\ k <= Len(words) + 2)

\* C6: text_wrap terminates for every input: the tokenizer loop and the
\* wrapping loop can always take a step until they return, and every step
\* lowers a measure that is a natural number, so each call returns.
WrapTerminates == [](NoStall /\ Variant >= 0) /\ [][Variant' < Variant]_vars

\* text_wrap returned for a text with an unterminated sequence and a word
\* wider than the width
WrapTerminatesWitness ==
    /\ op = "text_wrap" /\ pc = "done"
    /\ ~SeqsComplete(text, 1)
    /\ \E n \in 1..Len(words) : visible_length(words[n]) > width
    /\ lines # <<>>

\* the prefix of the n-th returned line
LinePrefix(n) == IF n = 1 THEN first_prefix ELSE next_prefix

\* C7: with force_truncate off and indent 0, a returned line whose prefix
\* leaves room for every unit (unit width <= width - prefix width) has, prefix
\* included, visible_length(line) <= width.
PrefixDoesNotOverflow ==
    op = "text_wrap" /\ ~force_truncate /\ indent = 0 =>
        \A n \in 1..Len(lines) :
            (\A u \in 1..Len(words) :
                 visible_length(words[u]) + visible_length(LinePrefix(n)) <= width)
            => visible_length(lines[n]) <= width

\* two prefixed lines were returned for units that all fit beside the prefix
PrefixDoesNotOverflowWitness ==
    /\ op = "text_wrap" /\ pc = "done" /\ ~force_truncate /\ indent = 0
    /\ first_prefix # <<>> /\ next_prefix # <<>>
    /\ Len(lines) = 2 /\ Len(words) = 2
    /\ \A n \in 1..2 : \A u \in 1..Len(words) :
           visible_length(words[u]) + visible_length(LinePrefix(n)) <= width

\* C9: for an input whose escape sequences are all complete, every escape
\* sequence that begins in a returned line also ends in that line, with
\* force_truncate on or off.
LinesKeepSequencesWhole ==
    op = "text_wrap" /\ width >= 1 /\ SeqsComplete(text, 1) =>
        \A n \in 1..Len(lines) : SeqsComplete(lines[n], 1)

-----------------------------------------------------------------------------
(* The full reset and the shape of the collapsed list *)

\* the positions of the codes whose parameter list is exactly [0]
ResetPositions(cl) == {n \in 1..Len(cl) : parse_sgr_params(cl[n]) = <<0>>}

\* the sub-list strictly after the last full reset (the whole list without one)
AfterLastReset(cl) ==
    LET R == ResetPositions(cl)
    IN  IF R = {} THEN cl
        ELSE SubSeq(cl, (CHOOSE n \in R : \A r \in R : r <= n) + 1, Len(cl))

\* C11: a full-reset code nullifies everything before it: for a list holding a
\* code whose parameter list is exactly [0], ansi_collapse gives what it gives
\* for the sub-list strictly after the last such code; the empty list
\* collapses to the empty list.
FullResetNullifies ==
    op = "ansi_collapse" /\ pc # "call" =>
        /\ code_list = <<>> => once = <<>>
        /\ ResetPositions(code_list) # {} =>
               once = ansi_collapse(AfterLastReset(code_list))

\* a list with a full reset between two other codes was collapsed to a
\* non-empty list that does not hold the code before the reset
FullResetNullifiesWitness ==
    /\ op = "ansi_collapse" /\ pc = "done"
    /\ Len(code_list) = 3 /\ ResetPositions(code_list) = {2}
    /\ once # <<>>
    /\ \A n \in 1..Len(once) : once[n] # code_list[1]

\* the first parameter of a code, -1 for a code without parameters
FirstParam(code) ==
    LET ps == parse_sgr_params(code) IN IF ps = <<>> THEN -1 ELSE ps[1]

AttrNums  == <<1, 2, 3, 4, 9>>
AttrChars == <<(<<"1">>), (<<"2">>), (<<"3">>), (<<"4">>), (<<"9">>)>>

\* the code that clears attribute a
AttrClear(a) ==
    CASE a \in {1, 2} -> 22 [] a = 3 -> 23 [] a = 4 -> 24 [] a = 9 -> 29

FgParams == (30..37) \cup (90..97) \cup {38}
BgParams == (40..47) \cup (100..107) \cup {48}
KnownParams ==
    {0, 1, 2, 3, 4, 9, 22, 23, 24, 29, 39, 49} \cup FgParams \cup BgParams

\* attribute a is active after the codes e: set and not cleared afterwards
ActiveAttr(e, a) ==
    \E n \in 1..Len(e) :
        /\ FirstParam(e[n]) = a
        /\ \A m \in (n + 1)..Len(e) : FirstParam(e[m]) # AttrClear(a)

\* the one combined attribute code, absent when no attribute is active
AttrCode(e) ==
    LET on == SelectSeq(<<1, 2, 3, 4, 5>>, LAMBDA x : ActiveAttr(e, AttrNums[x]))
    IN  IF on = <<>> THEN <<>>
        ELSE <<(<<ESC, "[">>
                \o Join([x \in 1..Len(on) |-> AttrChars[on[x]]], <<";">>)
                \o <<"m">>)>>

\* the last colour code (first parameter in S) not cleared afterwards
LastColour(e, S, clear) ==
    LET P == {n \in 1..Len(e) :
                 /\ FirstParam(e[n]) \in S
                 /\ \A m \in (n + 1)..Len(e) :
                        FirstParam(e[m]) \notin S \cup {clear}}
    IN  IF P = {} THEN <<>> ELSE <<e[CHOOSE n \in P : TRUE]>>

\* the codes of no known category, in order, duplicates kept
PassthroughOf(e) ==
    SelectSeq(e, LAMBDA c : FirstParam(c) # -1 /\ FirstParam(c) \notin KnownParams)

\* only bold-on and bold-off codes, the last one bold-on
BoldOnOff(cl) ==
    /\ cl # <<>>
    /\ \A n \in 1..Len(cl) : cl[n] \in {<<ESC, "[", "1", "m">>,
                                        <<ESC, "[", "2", "2", "m">>}
    /\ cl[Len(cl)] = <<ESC, "[", "1", "m">>

\* C12: the output of ansi_collapse is, in this order: at most one combined
\* attribute code listing the active attributes among 1, 2, 3, 4, 9 once each,
\* at most one foreground code verbatim, at most one background code
\* verbatim, then the passthrough codes in their original order with
\* duplicates; bold-on / bold-off codes ending in bold-on give one element.
CollapseShape ==
    op = "ansi_collapse" /\ pc # "call" =>
        LET e == AfterLastReset(code_list)
        IN  /\ once = AttrCode(e) \o LastColour(e, FgParams, 39)
                      \o LastColour(e, BgParams, 49) \o PassthroughOf(e)
            /\ BoldOnOff(code_list) => Len(once) = 1

\* three codes given as passthrough, colour, attribute came out reordered
CollapseShapeWitness ==
    /\ op = "ansi_collapse" /\ pc = "done"
    /\ Len(code_list) = 3 /\ Len(once) = 3
    /\ FirstParam(code_list[1]) = 5
    /\ FirstParam(code_list[2]) \in FgParams \cup BgParams
    /\ FirstParam(code_list[3]) \in {1, 2, 4}
    /\ once = <<code_list[3], code_list[2], code_list[1]>>

-----------------------------------------------------------------------------
(* visible on whole escape codes *)

\* the last index of the escape code of the data model that starts at the ESC
\* at p: CSI parameters and a letter, or OSC data ended by BEL or ESC '\';
\* 0 when there is none
CodeEnd(s, p) ==
    IF p < Len(s) /\ s[p + 1] = "["
    THEN LET j == SkipWhile(s, p + 2, Digits \cup {";", "?"})
         IN  IF j <= Len(s) /\ s[j] \in AsciiLetters THEN j ELSE 0
    ELSE IF p < Len(s) /\ s[p + 1] = "]"
    THEN LET j == SkipWhile(s, p + 2, {c \in {s[q] : q \in 1..Len(s)} :
                                           c \notin {ESC, BEL}})
         IN  IF j <= Len(s) /\ s[j] = BEL THEN j
             ELSE IF j < Len(s) /\ s[j] = ESC /\ s[j + 1] = "\\" THEN j + 1
             ELSE 0
    ELSE 0

\* s from p on is built from visible characters and whole escape codes
RECURSIVE BuiltFromCodes(_, _)
BuiltFromCodes(s, p) ==
    IF p > Len(s) THEN TRUE
    ELSE IF s[p] = ESC
    THEN CodeEnd(s, p) > 0 /\ BuiltFromCodes(s, CodeEnd(s, p) + 1)
    ELSE s[p] # BEL /\ BuiltFromCodes(s, p + 1)

\* s from p on with its escape codes deleted
RECURSIVE WithoutCodes(_, _)
WithoutCodes(s, p) ==
    IF p > Len(s) THEN <<>>
    ELSE IF s[p] = ESC THEN WithoutCodes(s, CodeEnd(s, p) + 1)
    ELSE <<s[p]>> \o WithoutCodes(s, p + 1)

\* C13: for a text built from visible characters and complete escape codes
\* (SGR/erase, other CSI ending in a letter, OSC ended by BEL or ESC '\'),
\* visible(text) is the text with exactly those codes deleted, and the codes
\* add nothing to visible_length.
VisibleRemovesCodes ==
    op = "visible" /\ pc # "call" /\ BuiltFromCodes(text, 1) =>
        /\ vis1 = WithoutCodes(text, 1)
        /\ visible_length(text) = StrWidth(WithoutCodes(text, 1))

-----------------------------------------------------------------------------
(* Properties of simple_wrap *)

\* the maximal runs of non-whitespace characters of s from index p on
RECURSIVE WordsFrom(_, _)
WordsFrom(s, p) ==
    LET a == SkipWhile(s, p, Whitespace)
        b == SkipWhile(s, a, {c \in {s[q] : q \in 1..Len(s)} : c \notin Whitespace})
    IN  IF a > Len(s) THEN <<>>
        ELSE <<SubSeq(s, a, b - 1)>> \o WordsFrom(s, b)

\* the first word of a line of words joined by spaces
FirstWord(line) ==
    SubSeq(line, 1, SkipWhile(line, 1, {c \in {line[q] : q \in 1..Len(line)} :
                                            c # " "}) - 1)

\* C14: simple_wrap is the greedy plain wrap: for a non-empty text and
\* width >= 1 the lines joined by single spaces are the whitespace-separated
\* words of the input joined by single spaces, every line of more than one
\* word is at most width columns wide, and a line starts only with a word that
\* did not fit after the line before it (width + 1 + word width > width); for
\* an empty text or width 0 the result is the input as the only line.
PlainWrapGreedy ==
    op = "simple_wrap" /\ pc = "done" =>
        IF width = 0 \/ text = <<>> THEN lines = <<text>>
        ELSE /\ Join(lines, <<" ">>) = Join(WordsFrom(text, 1), <<" ">>)
             /\ \A n \in 1..Len(lines) :
                    (\E q \in 1..Len(lines[n]) : lines[n][q] = " ")
                    => StrWidth(lines[n]) <= width
             /\ \A n \in 2..Len(lines) :
                    StrWidth(lines[n - 1]) + 1 + StrWidth(FirstWord(lines[n]))
                        > width

\* a text with a whitespace run and a wide character was wrapped into a line
\* of two words and another line
PlainWrapGreedyWitness ==
    /\ op = "simple_wrap" /\ pc = "done"
    /\ Len(lines) >= 2
    /\ \E n \in 1..Len(lines) : \E q \in 1..Len(lines[n]) : lines[n][q] = " "
    /\ \E q \in 1..(Len(text) - 1) : text[q] \in Whitespace /\ text[q + 1] \in Whitespace
    /\ \E q \in 1..Len(text) : text[q] = WIDE

-----------------------------------------------------------------------------
(* The line text_wrap starts at a break *)

\* the SGR codes of the first n units, in order
RECURSIVE CodesUpTo(_, _)
CodesUpTo(ws, n) ==
    IF n = 0 THEN <<>> ELSE CodesUpTo(ws, n - 1) \o extract_ansi_codes(ws[n])

\* the step places unit k on a new line after finishing the current one
BreaksLine ==
    /\ op = "text_wrap" /\ pc = "loop" /\ k >= 1 /\ k <= Len(words)
    /\ k' = k + 1
    /\ current_line # <<>>
    /\ visible_length(words[k]) > 0
    /\ ~Fits(words[k], current_line, lines, width, first_prefix, next_prefix)

\* C15: whenever text_wrap breaks a line, the new line is `indent` spaces,
\* then the collapsed style prefix (ansi_collapse of all SGR codes of the units
\* before the break, concatenated), then the unit being placed, also when
\* that unit itself begins with an SGR code.
BreakStartsStyled ==
    [][BreaksLine =>
          current_line' = Repeat(" ", indent)
                          \o Concat(ansi_collapse(CodesUpTo(words, k - 1)))
                          \o words[k]]_vars

-----------------------------------------------------------------------------
(* Properties of wrap_ansi *)

\* the SGR codes among the first n iterations that follow the last full reset
\* (a code whose parameter list is exactly [0]), in order of appearance
SeenSinceReset(its, n) ==
    LET cs == SelectSeq(SubSeq(its, 1, n), LAMBDA it : it.code)
    IN  AfterLastReset([x \in 1..Len(cs) |-> cs[x].s])

\* the step closes a line of wrap_ansi and opens the next one
WrapsAnsiLine ==
    /\ op = "wrap_ansi" /\ pc = "loop" /\ k >= 1 /\ k <= Len(words)
    /\ Len(lines') = Len(lines) + 1

\* C16: wrap_ansi keeps the formatting across line breaks: each line after the
\* first begins with exactly the SGR codes seen since the last full reset (a
\* code whose parameter list is [0]), in order of appearance, and a line
\* broken while such codes are active ends with the reset code.
AnsiKeepsFormatting ==
    [][WrapsAnsiLine =>
          LET seen == SeenSinceReset(words, k - 1)
              closed == lines'[Len(lines')]
          IN  /\ current_line' = Concat(seen) \o words[k].s
              /\ seen # <<>> =>
                     /\ Len(closed) >= 4
                     /\ SubSeq(closed, Len(closed) - 3, Len(closed))
                            = <<ESC, "[", "0", "m">>]_vars

-----------------------------------------------------------------------------
(* split_text keeps every character *)

\* index q of s lies inside an escape sequence: inside a complete CSI or OSC,
\* or after the introducer of one that never ends
InsideSeq(s, q) ==
    \/ \E sp \in SeqSpans(s, 1) : sp[1] <= q /\ q <= sp[2]
    \/ \E p \in 1..(q - 1) :
           /\ s[p] = ESC /\ SeqEnd(s, p) = 0
           /\ \A sp \in SeqSpans(s, 1) : ~(sp[1] <= p /\ p <= sp[2])

\* the indices of the input at which a unit ends
UnitEnds(ws) == {UnitStart(ws, u) + Len(ws[u]) - 1 : u \in 1..Len(ws)}

\* C17: split_text is lossless: the units concatenated in order are the input,
\* no unit is empty, and every whitespace run outside an escape sequence lies
\* at the end of a unit (each of its characters is followed by more of the run
\* or by the end of the unit).
SplitLossless ==
    op = "split_text" /\ pc = "done" =>
        /\ Concat(words) = text
        /\ \A u \in 1..Len(words) : words[u] # <<>>
        /\ \A q \in 1..Len(text) :
               is_whitespace(text[q]) /\ ~InsideSeq(text, q) =>
                   \/ q \in UnitEnds(words)
                   \/ q < Len(text) /\ is_whitespace(text[q + 1])

\* an input with an escape sequence and a run of two spaces outside it was
\* split into several units
SplitLosslessWitness ==
    /\ op = "split_text" /\ pc = "done"
    /\ Len(words) >= 2
    /\ SeqSpans(text, 1) # {}
    /\ \E q \in 1..(Len(text) - 1) :
           /\ text[q] = " " /\ text[q + 1] = " "
           /\ ~InsideSeq(text, q)

-----------------------------------------------------------------------------
(* text_wrap keeps the visible text *)

\* the characters of s that are not whitespace, in order
NonWhitespace(s) == SelectSeq(s, LAMBDA c : ~is_whitespace(c))

\* the n-th returned line without its prefix
LineBody(n) == SubSeq(lines[n], Len(LinePrefix(n)) + 1, Len(lines[n]))

\* C18: with force_truncate off and width >= 1, the visible non-whitespace
\* characters of the returned lines (prefixes removed), read in order, are the
\* visible non-whitespace characters of the input in order, and truncated is
\* false.
WrapKeepsVisibleText ==
    op = "text_wrap" /\ pc = "done" /\ width >= 1 /\ ~force_truncate =>
        /\ NonWhitespace(Concat([n \in 1..Len(lines) |-> visible(LineBody(n))]))
               = NonWhitespace(visible(text))
        /\ truncated = FALSE

====
